---- MODULE Spec2Model ----
(***************************************************************************)
(* Model of src/custom/estate/models/models.py: the estate.property and    *)
(* estate.property.offer records, their computed fields, the price         *)
(* constraint and the four button actions.                                 *)
(*                                                                         *)
(* Prices are whole numbers; over the whole numbers used here the float    *)
(* comparison  selling_price < expected_price * 0.9  of the source agrees  *)
(* with the exact comparison  10 * selling_price < 9 * expected_price.     *)
(***************************************************************************)
EXTENDS Integers, Sequences, FiniteSets

\* ---------------------------------------------------------------- bounds
MaxOffers == 2
NumPartners == 2
\* offers in the model of the deadline, and in the model of one property
MaxDated == 1
MaxOffersOne == 3
\* records in the set an action is called on
MaxSet == 2

\* the properties of the model: ids 1 and 2
Props == {1, 2}
Partners == 1..NumPartners
\* buyer = None (models.py line 173): no partner
None == 0
\* expected prices and offer prices tried: 260 < 0.9 * 300 = 270
ExpectedPrices == {0, 300}
OfferPrices == {260, 270}
Areas == {0, 5}
\* days are counted from an origin; a creation time is <<day, hour>>
CreateDays == {1, 10}
Hours == {0, 23}
Validities == {0, 7}
Deadlines == {1, 8, 15}
\* validity = fields.Integer(default=7) (models.py line 138)
DefaultValidity == 7

GardenOrientations == {"north", "south", "east", "west"}
PropertyStates == {"new", "offer received", "offer accepted", "sold", "canceled"}
\* a Selection or Boolean-like field without a value
Unset == ""

VARIABLES
  props,     \* estate.property records, by id
  offers,    \* estate.property.offer records, by id (the sequence index)
  cache,     \* record cache of the non-stored computed fields, by property id
  last       \* the last call made and how it ended

vars == <<props, offers, cache, last>>

\* ---------------------------------------------------------------- helpers
Max(S) == CHOOSE x \in S : \A y \in S : y <= x

\* record.offer_ids: the offers whose property_id is p
offer_ids(offs, p) == {i \in DOMAIN offs : offs[i].property_id = p}

\* ---------------------------------------------------------------- computed fields
\* fault variant: garden_area left out of the dependencies
depends_total_area_without_garden == {"living_area"}

\* @api.depends of the two computed fields
depends_total_area == {"living_area", "garden_area"}
depends_best_offer == {"offer_ids"}

compute_total_area(ps, p) == ps[p].living_area + ps[p].garden_area

compute_best_offer(offs, p) ==
  IF offer_ids(offs, p) = {} THEN 0
  ELSE Max({offs[i].price : i \in offer_ids(offs, p)})

\* a write of field fname of property p drops the cached values of the
\* computed fields that depend on it
modified(c, p, fname) ==
  [c EXCEPT ![p] = [total_area |-> IF fname \in depends_total_area
                                   THEN <<>> ELSE @.total_area,
                    best_price |-> IF fname \in depends_best_offer
                                   THEN <<>> ELSE @.best_price]]

\* reading a computed field: the cached value, or a fresh computation
get_total_area(ps, c, p) ==
  IF c[p].total_area # <<>> THEN c[p].total_area[1] ELSE compute_total_area(ps, p)

get_best_price(offs, c, p) ==
  IF c[p].best_price # <<>> THEN c[p].best_price[1] ELSE compute_best_offer(offs, p)

\* ---------------------------------------------------------------- constraint
\* fault variant: the boundary (exactly 90%) rejected too
check_selling_price_boundary_excluded(db, p) ==
  \E i \in offer_ids(db.offers, p) :
    /\ db.offers[i].status = "accepted"
    /\ 10 * db.props[p].selling_price <= 9 * db.props[p].expected_price

\* _check_selling_price: TRUE when it raises ValidationError for property p
check_selling_price(db, p) ==
  \E i \in offer_ids(db.offers, p) :
    /\ db.offers[i].status = "accepted"
    /\ 10 * db.props[p].selling_price < 9 * db.props[p].expected_price

\* ---------------------------------------------------------------- transactions
\* A call runs on db = [props, offers]; it ends with err = "none" or with the
\* name of the exception raised, db then being the state at the raise.
Ok(db) == [db |-> db, err |-> "none"]
Raise(db, e) == [db |-> db, err |-> e]

\* fault variant: the writes made before a raise are kept
Commit_without_rollback(pre, res) == res.db

\* the record store keeps the writes of a call that returns and drops the
\* writes of a call that raises
Commit(pre, res) == IF res.err = "none" THEN res.db ELSE pre

Db == [props |-> props, offers |-> offers]

\* ---------------------------------------------------------------- property actions
\* fault variant: the test for an already sold property is missing
set_status_sold_without_sold_test(db, recs) ==
  IF recs = <<>> THEN Ok(db)
  ELSE LET record == recs[1] IN
       IF db.props[record].state = "canceled" THEN Raise(db, "UserError")
       ELSE Ok([db EXCEPT !.props[record].state = "sold"])

\* fault variant: the sale also resets the price and the buyer
set_status_sold_resetting_sale(db, recs) ==
  IF recs = <<>> THEN Ok(db)
  ELSE LET record == recs[1] IN
       IF db.props[record].state = "canceled" THEN Raise(db, "UserError")
       ELSE IF db.props[record].state = "sold" THEN Raise(db, "UserError")
       ELSE Ok([db EXCEPT !.props[record].state = "sold",
                          !.props[record].selling_price = 0,
                          !.props[record].buyer = None])

set_status_sold(db, recs) ==
  IF recs = <<>> THEN Ok(db)
  ELSE LET record == recs[1] IN
       IF db.props[record].state = "canceled" THEN Raise(db, "UserError")
       ELSE IF db.props[record].state = "sold" THEN Raise(db, "UserError")
       ELSE Ok([db EXCEPT !.props[record].state = "sold"])

\* fault variant: the test for an already canceled property is missing
set_status_canceled_without_canceled_test(db, recs) ==
  IF recs = <<>> THEN Ok(db)
  ELSE LET record == recs[1] IN
       IF db.props[record].state = "sold" THEN Raise(db, "UserError")
       ELSE Ok([db EXCEPT !.props[record].state = "canceled"])

set_status_canceled(db, recs) ==
  IF recs = <<>> THEN Ok(db)
  ELSE LET record == recs[1] IN
       IF db.props[record].state = "sold" THEN Raise(db, "UserError")
       ELSE IF db.props[record].state = "canceled" THEN Raise(db, "UserError")
       ELSE Ok([db EXCEPT !.props[record].state = "canceled"])

\* ---------------------------------------------------------------- offer actions
\* fault variant: the loop refuses the offers of every property
accept_offer_refusing_all_properties(db, recs) ==
  IF recs = <<>> THEN Ok(db)
  ELSE LET record == recs[1]
           p  == db.offers[record].property_id
           d1 == [db EXCEPT !.offers[record].status = "accepted"]
           d2 == [d1 EXCEPT !.props[p].buyer = d1.offers[record].partner_id]
           d3 == [d2 EXCEPT !.props[p].selling_price = d2.offers[record].price]
           d4 == [d3 EXCEPT !.props[p].state = "offer accepted"]
           d5 == [d4 EXCEPT !.offers =
                    [i \in DOMAIN d4.offers |->
                       IF i # record
                       THEN [d4.offers[i] EXCEPT !.status = "refused"]
                       ELSE d4.offers[i]]]
       IN IF check_selling_price(d3, p) THEN Raise(d3, "ValidationError")
          ELSE Ok(d5)

\* fault variant: a new property goes to offer received first
accept_offer_through_offer_received(db, recs) ==
  IF recs = <<>> THEN Ok(db)
  ELSE LET record == recs[1]
           p  == db.offers[record].property_id
           d1 == [db EXCEPT !.offers[record].status = "accepted"]
           d2 == [d1 EXCEPT !.props[p].buyer = d1.offers[record].partner_id]
           d3 == [d2 EXCEPT !.props[p].selling_price = d2.offers[record].price]
           d4 == [d3 EXCEPT !.props[p].state =
                    IF @ = "new" THEN "offer received" ELSE "offer accepted"]
           d5 == [d4 EXCEPT !.offers =
                    [i \in DOMAIN d4.offers |->
                       IF i \in offer_ids(d4.offers, p) /\ i # record
                       THEN [d4.offers[i] EXCEPT !.status = "refused"]
                       ELSE d4.offers[i]]]
       IN IF check_selling_price(d3, p) THEN Raise(d3, "ValidationError")
          ELSE Ok(d5)

accept_offer(db, recs) ==
  IF recs = <<>> THEN Ok(db)
  ELSE LET record == recs[1]
           p  == db.offers[record].property_id
           d1 == [db EXCEPT !.offers[record].status = "accepted"]
           d2 == [d1 EXCEPT !.props[p].buyer = d1.offers[record].partner_id]
           d3 == [d2 EXCEPT !.props[p].selling_price = d2.offers[record].price]
           d4 == [d3 EXCEPT !.props[p].state = "offer accepted"]
           d5 == [d4 EXCEPT !.offers =
                    [i \in DOMAIN d4.offers |->
                       IF i \in offer_ids(d4.offers, p) /\ i # record
                       THEN [d4.offers[i] EXCEPT !.status = "refused"]
                       ELSE d4.offers[i]]]
       IN IF check_selling_price(d3, p) THEN Raise(d3, "ValidationError")
          ELSE Ok(d5)

\* fault variant: the other offers are left as they are
refuse_offer_leaving_others(db, recs) ==
  IF recs = <<>> THEN Ok(db)
  ELSE LET record == recs[1]
           p  == db.offers[record].property_id
           d1 == [db EXCEPT !.offers[record].status = "refused"]
           d2 == [d1 EXCEPT !.props[p].buyer = None]
           d3 == [d2 EXCEPT !.props[p].selling_price = 0]
       IN IF check_selling_price(d3, p) THEN Raise(d3, "ValidationError")
          ELSE Ok(d3)

refuse_offer(db, recs) ==
  IF recs = <<>> THEN Ok(db)
  ELSE LET record == recs[1]
           p  == db.offers[record].property_id
           d1 == [db EXCEPT !.offers[record].status = "refused"]
           d2 == [d1 EXCEPT !.props[p].buyer = None]
           d3 == [d2 EXCEPT !.props[p].selling_price = 0]
           d4 == [d3 EXCEPT !.offers =
                    [i \in DOMAIN d3.offers |->
                       IF i \in offer_ids(d3.offers, p) /\ i # record
                       THEN [d3.offers[i] EXCEPT !.status = "accepted"]
                       ELSE d3.offers[i]]]
       IN IF check_selling_price(d3, p) THEN Raise(d3, "ValidationError")
          ELSE Ok(d4)

\* a save of expected_price, followed by the constraint
write_expected_price(db, p, v) ==
  LET d1 == [db EXCEPT !.props[p].expected_price = v]
  IN IF check_selling_price(d1, p) THEN Raise(d1, "ValidationError") ELSE Ok(d1)

\* ---------------------------------------------------------------- initial state
NewProperty(e) ==
  [expected_price |-> e, selling_price |-> 0, living_area |-> 0,
   garden |-> FALSE, garden_area |-> 0, garden_orientation |-> Unset,
   state |-> "new", buyer |-> None]

EmptyCache == [p \in Props |-> [total_area |-> <<>>, best_price |-> <<>>]]

Init ==
  /\ props \in [Props -> {NewProperty(e) : e \in ExpectedPrices}]
  /\ offers = <<>>
  /\ cache = EmptyCache
  /\ last = [op |-> "init", recs |-> <<>>, arg |-> 0, result |-> "none"]

\* ---------------------------------------------------------------- steps
\* one call: run it, keep or drop its writes, record how it ended
Call(op, recs, arg, res) ==
  /\ props' = Commit(Db, res).props
  /\ offers' = Commit(Db, res).offers
  /\ last' = [op |-> op, recs |-> recs, arg |-> arg, result |-> res.err]

action_set_status_sold(recs) ==
  /\ Call("set_sold", recs, 0, set_status_sold(Db, recs))
  /\ UNCHANGED cache

action_set_status_canceled(recs) ==
  /\ Call("set_canceled", recs, 0, set_status_canceled(Db, recs))
  /\ UNCHANGED cache

action_accept_offer(recs) ==
  /\ Call("accept_offer", recs, 0, accept_offer(Db, recs))
  /\ UNCHANGED cache

action_refuse_offer(recs) ==
  /\ Call("refuse_offer", recs, 0, refuse_offer(Db, recs))
  /\ UNCHANGED cache

save_expected_price(p, v) ==
  /\ Call("write_expected_price", <<p>>, v, write_expected_price(Db, p, v))
  /\ UNCHANGED cache

\* Partner ids are interchangeable: a new offer comes from a partner that
\* already made one, or from the first partner that has not.
NextPartners ==
  {q \in Partners :
     \A k \in 1..(q - 1) : \E i \in DOMAIN offers : offers[i].partner_id = k}

\* a stored offer: status unset, no deadline computed yet; created is its
\* create_date, <<>> for a record that is not stored yet
NewOffer(p, partner, price, validity, created) ==
  [price |-> price, status |-> Unset, partner_id |-> partner, property_id |-> p,
   validity |-> validity, create_date |-> created, date_deadline |-> <<>>]

\* a new offer of partner for property p: offer_ids of p changes
create_offer(p, partner, price) ==
  /\ offers' = Append(offers, NewOffer(p, partner, price, DefaultValidity, <<1, 0>>))
  /\ cache' = modified(cache, p, "offer_ids")
  /\ last' = [op |-> "create_offer", recs |-> <<Len(offers) + 1>>, arg |-> 0,
              result |-> "none"]
  /\ UNCHANGED props

\* ---------------------------------------------------------------- the workflow
CreateOffer ==
  /\ Len(offers) < MaxOffers
  /\ \E p \in Props, q \in NextPartners, x \in OfferPrices : create_offer(p, q, x)
AcceptOffer == \E r \in DOMAIN offers : action_accept_offer(<<r>>)
RefuseOffer == \E r \in DOMAIN offers : action_refuse_offer(<<r>>)
SetSold == \E p \in Props : action_set_status_sold(<<p>>)
SetCanceled == \E p \in Props : action_set_status_canceled(<<p>>)
SaveExpectedPrice == \E p \in Props, v \in ExpectedPrices : save_expected_price(p, v)

Next ==
  \/ CreateOffer
  \/ AcceptOffer
  \/ RefuseOffer
  \/ SetSold
  \/ SetCanceled
  \/ SaveExpectedPrice

Spec == Init /\ [][Next]_vars

\* ---------------------------------------------------------------- areas and garden
write_living_area(p, v) ==
  /\ props' = [props EXCEPT ![p].living_area = v]
  /\ cache' = modified(cache, p, "living_area")
  /\ last' = [op |-> "write_living_area", recs |-> <<p>>, arg |-> v, result |-> "none"]
  /\ UNCHANGED offers

write_garden_area(p, v) ==
  /\ props' = [props EXCEPT ![p].garden_area = v]
  /\ cache' = modified(cache, p, "garden_area")
  /\ last' = [op |-> "write_garden_area", recs |-> <<p>>, arg |-> v, result |-> "none"]
  /\ UNCHANGED offers

write_garden_orientation(p, o) ==
  /\ props' = [props EXCEPT ![p].garden_orientation = o]
  /\ cache' = modified(cache, p, "garden_orientation")
  /\ last' = [op |-> "write_garden_orientation", recs |-> <<p>>, arg |-> 0,
              result |-> "none"]
  /\ UNCHANGED offers

\* fault variant: an orientation already chosen is kept
onchange_garden_values_keeping_orientation(rec) ==
  IF rec.garden
  THEN [rec EXCEPT !.garden_area = 10,
                   !.garden_orientation = IF @ = Unset THEN "north" ELSE @]
  ELSE [rec EXCEPT !.garden_area = 0, !.garden_orientation = Unset]

\* _onchange_garden, run on the record once its garden flag is g
onchange_garden_values(rec) ==
  IF rec.garden
  THEN [rec EXCEPT !.garden_area = 10, !.garden_orientation = "north"]
  ELSE [rec EXCEPT !.garden_area = 0, !.garden_orientation = Unset]

onchange_garden(p, g) ==
  /\ props' = [props EXCEPT ![p] = onchange_garden_values([@ EXCEPT !.garden = g])]
  /\ cache' = modified(modified(modified(cache, p, "garden"), p, "garden_area"),
                       p, "garden_orientation")
  /\ last' = [op |-> "onchange_garden", recs |-> <<p>>, arg |-> 0, result |-> "none"]
  /\ UNCHANGED offers

\* a read of total_area leaves the value read in the cache
read_total_area(p) ==
  /\ cache' = [cache EXCEPT ![p].total_area = <<get_total_area(props, cache, p)>>]
  /\ last' = [op |-> "read_total_area", recs |-> <<p>>, arg |-> 0, result |-> "none"]
  /\ UNCHANGED <<props, offers>>

\* the cache is dropped when a call ends: the next read computes again
invalidate_all ==
  /\ cache # EmptyCache
  /\ cache' = EmptyCache
  /\ last' = [op |-> "invalidate_all", recs |-> <<>>, arg |-> 0, result |-> "none"]
  /\ UNCHANGED <<props, offers>>

WriteLivingArea == \E p \in Props, v \in Areas : write_living_area(p, v)
WriteGardenArea == \E p \in Props, v \in Areas : write_garden_area(p, v)
WriteGardenOrientation ==
  \E p \in Props, o \in GardenOrientations : write_garden_orientation(p, o)
OnchangeGarden == \E p \in Props, g \in BOOLEAN : onchange_garden(p, g)
ReadTotalArea == \E p \in Props : read_total_area(p)

NextArea ==
  \/ WriteLivingArea
  \/ WriteGardenArea
  \/ WriteGardenOrientation
  \/ OnchangeGarden
  \/ ReadTotalArea
  \/ invalidate_all

SpecArea == Init /\ [][NextArea]_vars

\* ---------------------------------------------------------------- best price
\* an edit of the price of offer r: no field of the property is written, and
\* best_price depends on offer_ids alone
write_offer_price(r, x) ==
  /\ offers' = [offers EXCEPT ![r].price = x]
  /\ cache' = modified(cache, offers[r].property_id, "offer_ids.price")
  /\ last' = [op |-> "write_offer_price", recs |-> <<r>>, arg |-> x, result |-> "none"]
  /\ UNCHANGED props

read_best_price(p) ==
  /\ cache' = [cache EXCEPT ![p].best_price = <<get_best_price(offers, cache, p)>>]
  /\ last' = [op |-> "read_best_price", recs |-> <<p>>, arg |-> 0, result |-> "none"]
  /\ UNCHANGED <<props, offers>>

WriteOfferPrice == \E r \in DOMAIN offers, x \in OfferPrices : write_offer_price(r, x)
ReadBestPrice == \E p \in Props : read_best_price(p)

NextBest ==
  \/ CreateOffer
  \/ WriteOfferPrice
  \/ AcceptOffer
  \/ RefuseOffer
  \/ ReadBestPrice
  \/ invalidate_all

SpecBest == Init /\ [][NextBest]_vars

\* ---------------------------------------------------------------- sale and garden
\* the offer workflow together with the garden toggle
NextFrame ==
  \/ CreateOffer
  \/ AcceptOffer
  \/ SetSold
  \/ SetCanceled
  \/ OnchangeGarden

SpecFrame == Init /\ [][NextFrame]_vars

\* ---------------------------------------------------------------- record sets
\* the record sets an action can be called on: sequences of 1..MaxSet
\* different records of S
RecordSets(S) ==
  {s \in UNION {[1..n -> S] : n \in 1..MaxSet} :
     \A i, j \in DOMAIN s : i # j => s[i] # s[j]}

AcceptOfferSet == \E recs \in RecordSets(DOMAIN offers) : action_accept_offer(recs)
RefuseOfferSet == \E recs \in RecordSets(DOMAIN offers) : action_refuse_offer(recs)
SetSoldSet == \E recs \in RecordSets(Props) : action_set_status_sold(recs)
SetCanceledSet == \E recs \in RecordSets(Props) : action_set_status_canceled(recs)

NextSets ==
  \/ CreateOffer
  \/ AcceptOfferSet
  \/ RefuseOfferSet
  \/ SetSoldSet
  \/ SetCanceledSet

SpecSets == Init /\ [][NextSets]_vars

\* ---------------------------------------------------------------- one property
\* the offers of one property, accepted and refused in any order
CreateOfferOne ==
  /\ Len(offers) < MaxOffersOne
  /\ \E q \in NextPartners, x \in OfferPrices : create_offer(1, q, x)

NextOne ==
  \/ CreateOfferOne
  \/ AcceptOffer
  \/ RefuseOffer

SpecOne == Init /\ [][NextOne]_vars

\* ---------------------------------------------------------------- deadline
Abs(x) == IF x < 0 THEN 0 - x ELSE x

\* datetime + relativedelta(days=n)
add_days(dt, n) == <<dt[1] + n, dt[2]>>

\* a datetime assigned to a Date field: the date part
to_date(dt) == dt[1]

\* datetime.strptime(d.strftime('%Y-%m-%d'), '%Y-%m-%d'): midnight of the day
strp_strf(day) == <<day, 0>>

\* (a - b).days of two datetimes: whole days, rounded down
timedelta_days(a, b) == ((a[1] - b[1]) * 24 + (a[2] - b[2])) \div 24

depends_deadline == {"create_date", "validity"}

\* _compute_deadline of offer record rec, read on day today
compute_deadline(rec, today) ==
  IF rec.create_date # <<>>
  THEN to_date(add_days(rec.create_date, rec.validity))
  ELSE today + rec.validity

\* fault variant: the time of day of create_date is kept
inverse_deadline_keeping_time(rec, deadline) ==
  [rec EXCEPT !.validity = Abs(timedelta_days(strp_strf(deadline), rec.create_date))]

\* _inverse_deadline of a stored offer record rec whose date_deadline is set
\* to deadline
inverse_deadline(rec, deadline) ==
  LET new_deadline == strp_strf(deadline)
      new_create_date == strp_strf(to_date(rec.create_date))
  IN [rec EXCEPT !.validity = Abs(timedelta_days(new_deadline, new_create_date))]

\* a write of field fname of an offer drops its cached date_deadline when the
\* field is one it depends on
modified_offer(rec, fname) ==
  IF fname \in depends_deadline THEN [rec EXCEPT !.date_deadline = <<>>] ELSE rec

get_date_deadline(rec, today) ==
  IF rec.date_deadline # <<>> THEN rec.date_deadline[1] ELSE compute_deadline(rec, today)

\* an offer stored at time now
create_offer_at(validity, now) ==
  /\ offers' = Append(offers, NewOffer(1, 1, 260, validity, now))
  /\ last' = [op |-> "create_offer", recs |-> <<Len(offers) + 1>>, arg |-> 0,
              result |-> "none"]
  /\ UNCHANGED <<props, cache>>

\* an offer record being filled in, not stored yet: it has no create_date
new_offer_record(validity) ==
  /\ offers' = Append(offers, NewOffer(1, 1, 260, validity, <<>>))
  /\ last' = [op |-> "new_offer_record", recs |-> <<Len(offers) + 1>>, arg |-> 0,
              result |-> "none"]
  /\ UNCHANGED <<props, cache>>

\* the record is stored at time now: create_date is written
store_offer(r, now) ==
  /\ offers[r].create_date = <<>>
  /\ offers' = [offers EXCEPT ![r] = modified_offer([@ EXCEPT !.create_date = now],
                                                    "create_date")]
  /\ last' = [op |-> "store_offer", recs |-> <<r>>, arg |-> 0, result |-> "none"]
  /\ UNCHANGED <<props, cache>>

write_validity(r, v) ==
  /\ offers' = [offers EXCEPT ![r] = modified_offer([@ EXCEPT !.validity = v], "validity")]
  /\ last' = [op |-> "write_validity", recs |-> <<r>>, arg |-> v, result |-> "none"]
  /\ UNCHANGED <<props, cache>>

\* date_deadline of a stored offer is set: the inverse writes validity
write_date_deadline(r, deadline) ==
  /\ offers[r].create_date # <<>>
  /\ offers' = [offers EXCEPT ![r] = modified_offer(inverse_deadline(@, deadline),
                                                    "validity")]
  /\ last' = [op |-> "write_date_deadline", recs |-> <<r>>, arg |-> deadline,
              result |-> "none"]
  /\ UNCHANGED <<props, cache>>

\* a read of date_deadline on day today leaves the value read in the cache
read_date_deadline(r, today) ==
  /\ offers' = [offers EXCEPT ![r].date_deadline = <<get_date_deadline(offers[r], today)>>]
  /\ last' = [op |-> "read_date_deadline", recs |-> <<r>>, arg |-> today,
              result |-> "none"]
  /\ UNCHANGED <<props, cache>>

Times == {<<d, h>> : d \in CreateDays, h \in Hours}

CreateOfferAt ==
  /\ Len(offers) < MaxDated
  /\ \E v \in Validities, now \in Times : create_offer_at(v, now)
NewOfferRecord ==
  /\ Len(offers) < MaxDated
  /\ \E v \in Validities : new_offer_record(v)
StoreOffer == \E r \in DOMAIN offers, now \in Times : store_offer(r, now)
WriteValidity == \E r \in DOMAIN offers, v \in Validities : write_validity(r, v)
WriteDateDeadline == \E r \in DOMAIN offers, d \in Deadlines : write_date_deadline(r, d)
ReadDateDeadline == \E r \in DOMAIN offers, t \in CreateDays : read_date_deadline(r, t)

NextDeadline ==
  \/ CreateOfferAt
  \/ NewOfferRecord
  \/ StoreOffer
  \/ WriteValidity
  \/ WriteDateDeadline
  \/ ReadDateDeadline

SpecDeadline == Init /\ [][NextDeadline]_vars

\* ================================================================ properties
HasAccepted(offs, p) == \E i \in offer_ids(offs, p) : offs[i].status = "accepted"

Called(l, op, rec) == l.op = op /\ l.recs = <<rec>>

Errors == {"UserError", "ValidationError"}

\* ---------------------------------------------------------------- C1
\* C1: once the state of a property is sold or canceled, no later call
\* (set_sold, set_canceled, accept_offer, refuse_offer) changes it.
C1_TerminalStates ==
  [][\A p \in Props :
       props[p].state \in {"sold", "canceled"} => props'[p].state = props[p].state]_vars

\* ---------------------------------------------------------------- C2
\* C2: in every reachable state, a property with an accepted offer has
\* selling_price >= 90% of expected_price.
C2_AcceptedPriceFloor ==
  \A p \in Props :
    HasAccepted(offers, p) => 10 * props[p].selling_price >= 9 * props[p].expected_price

\* ---------------------------------------------------------------- C3
\* C3: set_sold on one property fails with UserError when its state is
\* canceled or sold, and otherwise succeeds and leaves the state sold; a
\* second set_sold right after a successful one fails with UserError.
C3_SetSold ==
  [][\A p \in Props :
       Called(last', "set_sold", p) =>
         /\ IF props[p].state \in {"canceled", "sold"}
            THEN last'.result = "UserError"
            ELSE last'.result = "none" /\ props'[p].state = "sold"
         /\ (Called(last, "set_sold", p) /\ last.result = "none")
              => last'.result = "UserError"]_vars

C3_Witness ==
  /\ last.op = "set_sold"
  /\ last.result = "UserError"
  /\ props[last.recs[1]].state = "sold"

\* ---------------------------------------------------------------- C4
\* C4: set_canceled on one property fails with UserError when its state is
\* sold or canceled, and otherwise succeeds and leaves the state canceled.
C4_SetCanceled ==
  [][\A p \in Props :
       Called(last', "set_canceled", p) =>
         IF props[p].state \in {"sold", "canceled"}
         THEN last'.result = "UserError"
         ELSE last'.result = "none" /\ props'[p].state = "canceled"]_vars

C4_Witness ==
  /\ last.op = "set_canceled"
  /\ last.result = "UserError"
  /\ props[last.recs[1]].state = "sold"

\* ---------------------------------------------------------------- C5
\* C5: after a successful accept_offer on offer A of property P: A is
\* accepted, P.buyer is A's partner, P.selling_price is A's price, P.state is
\* offer accepted, every other offer of P is refused (A is the only accepted
\* offer of P), and the offers of other properties are unchanged.
C5_AcceptOffer ==
  [][\A a \in DOMAIN offers :
       (Called(last', "accept_offer", a) /\ last'.result = "none") =>
         LET p == offers[a].property_id IN
         /\ DOMAIN offers' = DOMAIN offers
         /\ offers'[a] = [offers[a] EXCEPT !.status = "accepted"]
         /\ props'[p].buyer = offers[a].partner_id
         /\ props'[p].selling_price = offers[a].price
         /\ props'[p].state = "offer accepted"
         /\ \A i \in DOMAIN offers \ {a} :
              IF offers[i].property_id = p
              THEN offers'[i] = [offers[i] EXCEPT !.status = "refused"]
              ELSE offers'[i] = offers[i]
         /\ {i \in offer_ids(offers', p) : offers'[i].status = "accepted"} = {a}]_vars

C5_Witness ==
  /\ last.op = "accept_offer"
  /\ last.result = "none"
  /\ offers[last.recs[1]].status = "accepted"
  /\ \E i \in DOMAIN offers :
       /\ i # last.recs[1]
       /\ offers[i].property_id = offers[last.recs[1]].property_id
       /\ offers[i].status = "refused"

\* ---------------------------------------------------------------- C6
\* C6: after a successful refuse_offer on offer A of property P: A is
\* refused, P.buyer is empty, P.selling_price is 0, every other offer of P is
\* accepted, and P.state is unchanged.
C6_RefuseOffer ==
  [][\A a \in DOMAIN offers :
       (Called(last', "refuse_offer", a) /\ last'.result = "none") =>
         LET p == offers[a].property_id IN
         /\ DOMAIN offers' = DOMAIN offers
         /\ offers'[a] = [offers[a] EXCEPT !.status = "refused"]
         /\ props'[p].buyer = None
         /\ props'[p].selling_price = 0
         /\ props'[p].state = props[p].state
         /\ \A i \in offer_ids(offers, p) \ {a} :
              offers'[i] = [offers[i] EXCEPT !.status = "accepted"]]_vars

C6_Witness ==
  /\ last.op = "refuse_offer"
  /\ last.result = "none"
  /\ offers[last.recs[1]].status = "refused"
  /\ \E i \in DOMAIN offers :
       /\ i # last.recs[1]
       /\ offers[i].property_id = offers[last.recs[1]].property_id
       /\ offers[i].status = "accepted"

\* ---------------------------------------------------------------- C7
\* C7: the price check run by a write of expected_price or selling_price
\* fails with ValidationError exactly when the property has an accepted offer
\* and selling_price < 0.9 x expected_price (both as they are when the check
\* runs); it passes at the boundary and whenever no offer is accepted.
C7_PriceCheck ==
  [][/\ \A p \in Props :
          Called(last', "write_expected_price", p) =>
            /\ last'.result \in {"none", "ValidationError"}
            /\ last'.result = "ValidationError" <=>
                 (HasAccepted(offers, p) /\ 10 * props[p].selling_price < 9 * last'.arg)
     /\ \A a \in DOMAIN offers :
          Called(last', "accept_offer", a) =>
            /\ last'.result \in {"none", "ValidationError"}
            /\ last'.result = "ValidationError" <=>
                 10 * offers[a].price < 9 * props[offers[a].property_id].expected_price
     /\ \A a \in DOMAIN offers :
          Called(last', "refuse_offer", a) =>
            /\ last'.result \in {"none", "ValidationError"}
            /\ last'.result = "ValidationError" <=>
                 /\ \E i \in offer_ids(offers, offers[a].property_id) \ {a} :
                      offers[i].status = "accepted"
                 /\ 0 < 9 * props[offers[a].property_id].expected_price]_vars

\* the boundary: an offer of 270 accepted against an expected price of 300
C7_Witness ==
  /\ last.op = "accept_offer"
  /\ last.result = "none"
  /\ props[offers[last.recs[1]].property_id].selling_price = 270
  /\ props[offers[last.recs[1]].property_id].expected_price = 300

\* ---------------------------------------------------------------- C8
\* C8: a call that ends with UserError or ValidationError leaves the stored
\* records (state, buyer, selling_price, the status of every offer) as they
\* were before the call.
C8_AllOrNothing ==
  [][last'.result \in Errors => (props' = props /\ offers' = offers)]_vars

\* an accept_offer rejected by the price check: the offer is not accepted,
\* although status = accepted was written before the check ran
C8_Witness ==
  /\ last.op = "accept_offer"
  /\ last.result = "ValidationError"
  /\ offers[last.recs[1]].status # "accepted"

\* ---------------------------------------------------------------- C9
\* C9: best_price, as read, is the maximum price over the current offers of
\* the property, and 0 when it has none.
C9_BestPrice ==
  \A p \in Props :
    get_best_price(offers, cache, p) =
      IF offer_ids(offers, p) = {} THEN 0
      ELSE Max({offers[i].price : i \in offer_ids(offers, p)})

\* ---------------------------------------------------------------- C10
\* C10: total_area, as read, is living_area + garden_area after any write of
\* either, the garden toggle included.
C10_TotalArea ==
  \A p \in Props :
    get_total_area(props, cache, p) = props[p].living_area + props[p].garden_area

\* the toggle changed garden_area and the sum is read with a living area set
C10_Witness ==
  /\ last.op = "onchange_garden"
  /\ props[last.recs[1]].garden_area = 10
  /\ props[last.recs[1]].living_area = 5
  /\ get_total_area(props, cache, last.recs[1]) = 15

\* ---------------------------------------------------------------- C11
\* C11: date_deadline, as read, is create_date + validity days for an offer
\* with a creation date and, for one without, the day it is computed +
\* validity days; setting
\* date_deadline on a stored offer sets validity to the absolute number of
\* days between the new deadline and create_date.
C11_Deadline ==
  [][\A r \in DOMAIN offers' :
       /\ Called(last', "read_date_deadline", r) =>
            IF offers[r].create_date # <<>>
            THEN offers'[r].date_deadline =
                   <<offers[r].create_date[1] + offers[r].validity>>
            ELSE offers[r].date_deadline = <<>> =>
                   offers'[r].date_deadline = <<last'.arg + offers[r].validity>>
       /\ (offers'[r].create_date # <<>> /\ offers'[r].date_deadline # <<>>) =>
            offers'[r].date_deadline[1] = offers'[r].create_date[1] + offers'[r].validity
       /\ Called(last', "write_date_deadline", r) =>
            offers'[r].validity = Abs(last'.arg - offers[r].create_date[1])]_vars

\* created on day 1 late in the day, deadline set to day 15: validity 14
C11_Witness ==
  /\ last.op = "write_date_deadline"
  /\ last.arg = 15
  /\ offers[last.recs[1]].create_date = <<1, 23>>
  /\ offers[last.recs[1]].validity = 14

\* ---------------------------------------------------------------- C15
\* C15 as stated: for a stored offer and every date D, on, after or before
\* create_date, once date_deadline is set to D the deadline computed from
\* create_date and the new validity is D.
C15_RoundTripAnyDate ==
  [][\A r \in DOMAIN offers :
       Called(last', "write_date_deadline", r) =>
         compute_deadline(offers'[r], 0) = last'.arg]_vars

\* C15 as amended: the same for every date D on or after the day of
\* create_date.
C15_RoundTripFromCreateDate ==
  [][\A r \in DOMAIN offers :
       (Called(last', "write_date_deadline", r) /\ last'.arg >= offers[r].create_date[1]) =>
         compute_deadline(offers'[r], 0) = last'.arg]_vars

C15_Witness ==
  /\ last.op = "write_date_deadline"
  /\ last.arg > offers[last.recs[1]].create_date[1]
  /\ offers[last.recs[1]].create_date[2] = 23
  /\ compute_deadline(offers[last.recs[1]], 0) = last.arg

\* ---------------------------------------------------------------- C12
\* C12: the garden toggle leaves garden_area = 10 and garden_orientation =
\* north when garden is true, garden_area = 0 and no orientation when it is
\* false, whatever the values before; run again on its own result it changes
\* nothing.
C12_GardenToggle ==
  \A p \in Props :
    Called(last, "onchange_garden", p) =>
      /\ IF props[p].garden
         THEN props[p].garden_area = 10 /\ props[p].garden_orientation = "north"
         ELSE props[p].garden_area = 0 /\ props[p].garden_orientation = Unset
      /\ onchange_garden_values(props[p]) = props[p]

\* the toggle switched the garden off
C12_Witness ==
  /\ last.op = "onchange_garden"
  /\ ~props[last.recs[1]].garden
  /\ props[last.recs[1]].garden_area = 0
  /\ props[last.recs[1]].garden_orientation = Unset

\* ---------------------------------------------------------------- C13
\* C13: set_sold and set_canceled change nothing but the state of the
\* property they are called on; they and the garden toggle leave
\* selling_price, buyer and every offer as they were.
C13_Frame ==
  [][\A p \in Props :
       /\ (Called(last', "set_sold", p) \/ Called(last', "set_canceled", p)) =>
            /\ offers' = offers
            /\ props'[p] = [props[p] EXCEPT !.state = props'[p].state]
            /\ \A q \in Props \ {p} : props'[q] = props[q]
       /\ Called(last', "onchange_garden", p) =>
            /\ offers' = offers
            /\ \A q \in Props :
                 /\ props'[q].selling_price = props[q].selling_price
                 /\ props'[q].buyer = props[q].buyer
                 /\ props'[q].state = props[q].state]_vars

\* a property sold after an offer was accepted: price and buyer are kept
C13_Witness ==
  /\ last.op = "set_sold"
  /\ last.result = "none"
  /\ props[last.recs[1]].state = "sold"
  /\ props[last.recs[1]].selling_price = 270
  /\ props[last.recs[1]].buyer # None

\* ---------------------------------------------------------------- C14
\* C14: an action called on a set of several records acts on each of them:
\* set_sold (set_canceled) on properties none of which is sold or canceled
\* leaves every one of them sold (canceled); a successful accept_offer
\* (refuse_offer) on offers of different properties leaves every one of them
\* accepted (refused).
C14_WholeSet ==
  [][/\ \A recs \in RecordSets(Props) :
          (/\ last'.recs = recs
           /\ \A i \in DOMAIN recs : props[recs[i]].state \notin {"sold", "canceled"}) =>
            /\ last'.op = "set_sold" =>
                 \A i \in DOMAIN recs : props'[recs[i]].state = "sold"
            /\ last'.op = "set_canceled" =>
                 \A i \in DOMAIN recs : props'[recs[i]].state = "canceled"
     /\ \A recs \in RecordSets(DOMAIN offers) :
          (/\ last'.recs = recs
           /\ last'.result = "none"
           /\ \A i, j \in DOMAIN recs :
                i # j => offers[recs[i]].property_id # offers[recs[j]].property_id) =>
            /\ last'.op = "accept_offer" =>
                 \A i \in DOMAIN recs : offers'[recs[i]].status = "accepted"
            /\ last'.op = "refuse_offer" =>
                 \A i \in DOMAIN recs : offers'[recs[i]].status = "refused"]_vars

\* ---------------------------------------------------------------- C16
\* C16: after any sequence of accept_offer and refuse_offer calls on the
\* offers of a property, at most one of its offers is accepted.
C16_AtMostOneAccepted ==
  \A p \in Props :
    Cardinality({i \in offer_ids(offers, p) : offers[i].status = "accepted"}) <= 1

\* ---------------------------------------------------------------- C17
\* C17: a property in state offer accepted has a buyer and an accepted
\* offer, and a buyer is always the partner of an accepted offer whose price
\* is selling_price.
C17_StateBuyerOffers ==
  \A p \in Props :
    /\ props[p].state = "offer accepted" =>
         (props[p].buyer # None /\ HasAccepted(offers, p))
    /\ props[p].buyer # None =>
         \E i \in offer_ids(offers, p) :
           /\ offers[i].status = "accepted"
           /\ offers[i].partner_id = props[p].buyer
           /\ offers[i].price = props[p].selling_price

\* ---------------------------------------------------------------- C18
\* C18: no call puts a property in state offer received: the state of a
\* property is always new, offer accepted, sold or canceled.
C18_NoOfferReceived ==
  \A p \in Props :
    /\ props[p].state \in PropertyStates
    /\ props[p].state \in {"new", "offer accepted", "sold", "canceled"}

\* an offer accepted on one property while the other is still new
C18_Witness ==
  /\ last.op = "accept_offer"
  /\ last.result = "none"
  /\ \E p, q \in Props :
       props[p].state = "offer accepted" /\ props[q].state = "new"

====
